---- MODULE Spec2Model ----
(***************************************************************************)
(* PCF8574 8-channel output (mycodo/outputs/pcf8574.py).                   *)
(*                                                                         *)
(* Several OutputModule instances (possibly in different processes) drive  *)
(* single channels of one PCF8574 chip.  The chip only takes whole-byte    *)
(* writes, so every output_switch() reads the 8 last-commanded states from *)
(* a state file, changes one entry, rewrites the file and sends the whole  *)
(* byte, all under a lock file named after the bus and chip address.       *)
(*                                                                         *)
(* Python values None / True / False are modelled as the sequences         *)
(* <<>> / <<TRUE>> / <<FALSE>>; text written to the state file is modelled *)
(* as lines [text, nl] so that formatting and parsing are real conversions.*)
(***************************************************************************)
EXTENDS Integers, Sequences, FiniteSets, TLC

\* ------------------------------------------------------------ bounds
\* Number of OutputModule instances.
NumCtrl == 2
\* output_switch() calls started in one behaviour, by all instances
\* (startup and shutdown included).
MaxCalls == 2
\* I/O failures (state file or bus) that may happen in one behaviour.
MaxFaults == 1

Ctrl == 1..NumCtrl

\* ------------------------------------------------------------ python values
None == <<>>
PyTrue == <<TRUE>>
PyFalse == <<FALSE>>
PyBool(b) == <<b>>
PyValues == {None, PyTrue, PyFalse}

\* A truth test that takes everything but False as true.
TruthyUnlessFalse(v) == v # PyFalse

\* Python truth value of None / True / False (`if val:`).
Truthy(v) == v = PyTrue

\* ------------------------------------------------------------ configuration
\* The chip has 8 pins; 'options_select' offers channels '1'..'8'.
NumChannels == 8
ChannelOptions == 1..NumChannels
\* self.channel: <<n>> for option n; a channel option that was never stored
\* reaches setup_output as None.
ChannelInputs == {<<n>> : n \in ChannelOptions} \cup {None}
\* int(self.channel)
ChannelNumber(ch) == ch[1]

I2CBus == 1
\* Two of the sixteen addresses of 'i2c_location'.
I2CLocations == {"0x20", "0x21"}

\* int(str(i2c_location), 16)
HexToInt(loc) ==
    CASE loc = "0x20" -> 32
      [] loc = "0x21" -> 33

\* State arguments a caller may pass to output_switch().
StateArgs == {"on", "off", "toggle"}

\* on_off_state_startup / on_off_state_shutdown: '1' on, '0' off; NoPolicy
\* stands for None and every other value (neutral).
NoPolicy == "None"
Policies == {"1", "0", NoPolicy}

\* A mapping with '1' and '0' exchanged.
PolicyStateSwapped(policy) ==
    IF policy = "1" THEN "off" ELSE IF policy = "0" THEN "on" ELSE ""

\* The argument of the output_switch() call a startup or shutdown state asks
\* for: 'on' for '1', 'off' for '0', no call ("") for anything else.
PolicyState(policy) ==
    IF policy = "1" THEN "on" ELSE IF policy = "0" THEN "off" ELSE ""

\* The configurations tried, by scenario.
\*   "solo":   one instance alone on either chip, with every channel, both
\*             polarities and every startup and shutdown state;
\*   "shared": all instances on the first chip, each on its first or last
\*             channel, with on = high, no startup or shutdown state,
\*             called with 'on' or 'off' and never stopped.  The instances
\*             are alike, so they are set up in the order of their numbers.
Scenarios == {"solo", "shared"}
InstancesOf(sc) == IF sc = "solo" THEN {1} ELSE Ctrl
StoppedOf(sc) == IF sc = "solo" THEN {1} ELSE {}
ChannelsOf(sc) == IF sc = "solo" THEN ChannelInputs ELSE {<<1>>, <<NumChannels>>}
OnStatesOf(sc) == IF sc = "solo" THEN BOOLEAN ELSE {TRUE}
ArgsOf(sc) == IF sc = "solo" THEN StateArgs ELSE {"on", "off"}
PoliciesOf(sc) == IF sc = "solo" THEN Policies ELSE {NoPolicy}
LocationsOf(sc) == IF sc = "solo" THEN I2CLocations ELSE {"0x20"}

\* '/var/lock/pcf8574_{}_{}'.format(i2c_bus, i2c_location)
LockFileName(bus, loc) == <<"/var/lock/pcf8574", bus, loc>>

\* '{}.states'.format(lock_file)
StateFileName(lf) == <<lf, ".states">>

\* A lock file whose name also depends on the instance's channel.
SetupFilesPerChannel(self_channel, bus, loc) ==
    [lock_file |-> <<LockFileName(bus, loc), self_channel>>,
     state_file |-> StateFileName(LockFileName(bus, loc))]

\* The two paths setup_output derives for an instance: both depend on the
\* bus and the chip address only, not on the instance's channel.
SetupFiles(self_channel, bus, loc) ==
    [lock_file |-> LockFileName(bus, loc),
     state_file |-> StateFileName(LockFileName(bus, loc))]

StateFiles == {StateFileName(LockFileName(I2CBus, loc)) : loc \in I2CLocations}
Chips == {<<I2CBus, HexToInt(loc)>> : loc \in I2CLocations}

\* ------------------------------------------------------------ state file text
Line(t, n) == [text |-> t, nl |-> n]

\* Tokens in another spelling than the read loop compares with.
StrOtherSpelling(v) ==
    CASE v = None -> "Unknown"
      [] v = PyTrue -> "true"
      [] v = PyFalse -> "false"

\* '{}\n'.format(write_state)
Str(v) ==
    CASE v = None -> "None"
      [] v = PyTrue -> "True"
      [] v = PyFalse -> "False"

FormatLine(v) == Line(Str(v), TRUE)

\* Dropping the last character of a line that has no newline to drop.
Chop(t) ==
    CASE t = "None" -> "Non"
      [] t = "True" -> "Tru"
      [] t = "False" -> "Fals"
      [] OTHER -> ""

\* read_state = line[:-1]
ReadState(line) == IF line.nl THEN line.text ELSE Chop(line.text)

\* The for-loop over the lines of the state file: a recognised token appends
\* a value, anything else appends nothing.
RECURSIVE ParseLines(_)
ParseLines(lines) ==
    IF lines = <<>> THEN <<>>
    ELSE LET rs == ReadState(Head(lines))
             rest == ParseLines(Tail(lines))
         IN  CASE rs = "None" -> <<None>> \o rest
               [] rs = "True" -> <<PyTrue>> \o rest
               [] rs = "False" -> <<PyFalse>> \o rest
               [] OTHER -> rest

\* A file of the file system: absent, or a sequence of lines.
Absent == [exists |-> FALSE, lines |-> <<>>]
File(lines) == [exists |-> TRUE, lines |-> lines]

\* list_states after the read: the parsed file, or 8 x None without a file.
LoadStates(file) ==
    IF file.exists THEN ParseLines(file.lines)
    ELSE [i \in 1..NumChannels |-> None]

\* The lines the write loop produces for a list of states.
RECURSIVE FormatStates(_)
FormatStates(states) ==
    IF states = <<>> THEN <<>>
    ELSE <<FormatLine(Head(states))>> \o FormatStates(Tail(states))

\* ------------------------------------------------------------ register byte
RECURSIVE Pow2(_)
Pow2(n) == IF n = 0 THEN 1 ELSE 2 * Pow2(n - 1)

\* Bit n of byte b.
Bit(b, n) == (b \div Pow2(n)) % 2

\* A packing with index 0 as the least significant bit: 1 << i.
RECURSIVE PackFromLsbFirst(_, _)
PackFromLsbFirst(value, i) ==
    IF i > Len(value) THEN 0
    ELSE (IF value[i] = PyTrue THEN Pow2(i - 1) ELSE 0) + PackFromLsbFirst(value, i + 1)

\* PCF8574.port setter: new_state |= 1 << 7 - i for every true entry
\* (i counted from 0; the sequence is indexed from 1 here).
RECURSIVE PackFrom(_, _)
PackFrom(value, i) ==
    IF i > Len(value) THEN 0
    ELSE (IF Truthy(value[i]) THEN Pow2(7 - (i - 1)) ELSE 0) + PackFrom(value, i + 1)

PortByte(value) == PackFrom(value, 1)

\* IOPort.__repr__: the byte read as a list of 8 booleans,
\* ret[i] = bool(state & 1 << 7 - i).
IOPortRepr(byte) == [i \in 1..NumChannels |-> PyBool(Bit(byte, 7 - (i - 1)) = 1)]

\* An index that is one too high: list_states[self.channel].
ListIndexOneTooHigh(states, k) == k + 2

\* list_states[self.channel - 1] = ..., a Python list index (0-based,
\* negative counts from the end) as a 1-based position.
ListIndex(states, k) == IF k >= 0 THEN k + 1 ELSE Len(states) + k + 1

\* ------------------------------------------------------------ initial files
AllNone == [i \in 1..NumChannels |-> None]
Mixed == <<PyTrue, PyFalse, None, PyTrue, PyFalse, None, PyTrue, PyFalse>>
Junk == Line("junk", TRUE)

\* What may lie on disk when the instances start: nothing, a record written
\* by an earlier run, or a record damaged outside the program.
ValidFiles == {File(FormatStates(AllNone)), File(FormatStates(Mixed))}
DamagedFiles ==
    { File(SubSeq(FormatStates(Mixed), 1, 7)),
      File(FormatStates(Mixed) \o <<FormatLine(PyTrue)>>),
      File(<<FormatLine(PyTrue), Junk>> \o SubSeq(FormatStates(Mixed), 2, 8)),
      File(<<Junk>> \o SubSeq(FormatStates(Mixed), 2, 8)),
      File(SubSeq(FormatStates(Mixed), 1, 7) \o <<Line("False", FALSE)>>) }
InitFiles == {Absent} \cup ValidFiles \cup DamagedFiles

\* The byte the chip holds before the first write (all pins high after
\* power-on, or whatever an earlier run left).
InitBytes == {255, 0}

\* The state file and the byte of every chip at the start, by scenario.
InitFilesOf(sc) ==
    IF sc = "solo" THEN InitFiles
    ELSE {Absent, File(FormatStates(Mixed))}
InitBytesOf(sc) == IF sc = "solo" THEN InitBytes ELSE {255}

\* ------------------------------------------------------------ state
VARIABLES
    scenario,         \* which configurations are tried (never changes)
    fs,               \* state files on disk: path -> file
    reg,              \* the output register of each chip: <<bus, address>> -> byte
    locks,            \* lock files currently held: set of <<name, holder>>
    faults,           \* I/O failures so far
    channel, output_on_state, state_startup, state_shutdown,
    lock_file, state_file, sensor, output_setup,
    output_state,     \* self.output_state
    pc,               \* where each instance is in its code
    state,            \* the argument of the running output_switch()
    caller,           \* who called it: "host", "setup" or "stop"
    list_states,      \* the local list of the running output_switch()
    exc,              \* an exception is propagating to the except clause
    log,              \* the logger.error message of the current or last call
    read_log,         \* the list logged as "Read states" by that call
    calls,            \* output_switch() calls started by each instance
    outcome,          \* how the last call ended
    entry_on,         \* is_on() when the running call started
    file_existed      \* os.path.exists(state_file) as the running call saw it

conf == <<scenario, channel, output_on_state, state_startup, state_shutdown,
          lock_file, state_file, sensor, output_setup>>
call == <<state, caller, calls, entry_on>>
seen == <<read_log, file_existed>>
vars == <<fs, reg, locks, faults, conf, output_state, pc, call, list_states,
          exc, log, seen, outcome>>

\* The positions of pc.
\*   new      constructed, setup_output not yet run
\*   idle     set up (or setup failed), no call running
\*   acquire  in lock_acquire                       (line 122)
\*   read     lock held, about to read the file     (lines 125-142)
\*   check    about to check and change the list    (lines 145-160)
\*   open     about to open the file for writing    (line 163)
\*   write    file truncated, about to write lines  (lines 164-165)
\*   port     about to write the register           (line 168)
\*   finally  leaving the inner try                 (lines 169-172)
\*   stopped  stop_output has finished
InLock == {"read", "check", "open", "write", "port", "finally"}

Init ==
    /\ scenario \in Scenarios
    /\ \E f \in InitFilesOf(scenario) : fs = [p \in StateFiles |-> f]
    /\ \E b \in InitBytesOf(scenario) : reg = [chip \in Chips |-> b]
    /\ locks = {}
    /\ faults = 0
    /\ channel = [c \in Ctrl |-> None]
    /\ output_on_state = [c \in Ctrl |-> None]
    /\ state_startup = [c \in Ctrl |-> NoPolicy]
    /\ state_shutdown = [c \in Ctrl |-> NoPolicy]
    /\ lock_file = [c \in Ctrl |-> None]
    /\ state_file = [c \in Ctrl |-> None]
    /\ sensor = [c \in Ctrl |-> None]
    /\ output_setup = [c \in Ctrl |-> FALSE]
    /\ output_state = [c \in Ctrl |-> None]
    /\ pc = [c \in Ctrl |-> "new"]
    /\ state = [c \in Ctrl |-> ""]
    /\ caller = [c \in Ctrl |-> ""]
    /\ list_states = [c \in Ctrl |-> <<>>]
    /\ exc = [c \in Ctrl |-> FALSE]
    /\ log = [c \in Ctrl |-> ""]
    /\ read_log = [c \in Ctrl |-> <<>>]
    /\ calls = [c \in Ctrl |-> 0]
    /\ outcome = [c \in Ctrl |-> "none"]
    /\ entry_on = [c \in Ctrl |-> None]
    /\ file_existed = [c \in Ctrl |-> FALSE]

\* The calls started so far, and whether one more may start.
RECURSIVE CallsOf(_)
CallsOf(n) == IF n = 0 THEN 0 ELSE calls[n] + CallsOf(n - 1)
MayCall == CallsOf(NumCtrl) < MaxCalls

\* is_on(): self.output_state once set up, None otherwise.
is_on(c) == IF output_setup[c] THEN output_state[c] ELSE None

\* Where control goes when output_switch() returns to its caller.
AfterReturn(who) == IF who = "stop" THEN "stopped" ELSE "idle"

\* A channel check that lets every channel pass.
NoChannelCheck(ch) == FALSE

\* if self.channel is None
ChannelIsNone(ch) == ch = None

\* Entering output_switch(s) from `who`: the channel check of lines 116-118,
\* with `ch` and `setup` the instance's channel and output_setup at entry.
Enter(c, s, who, ch, setup) ==
    /\ state' = [state EXCEPT ![c] = s]
    /\ caller' = [caller EXCEPT ![c] = who]
    /\ calls' = [calls EXCEPT ![c] = @ + 1]
    /\ entry_on' = [entry_on EXCEPT ![c] = IF setup THEN output_state[c] ELSE None]
    /\ exc' = [exc EXCEPT ![c] = FALSE]
    /\ UNCHANGED <<seen, list_states>>
    /\ IF ChannelIsNone(ch)
       THEN /\ log' = [log EXCEPT ![c] = "Output channel needs to be specified"]
            /\ outcome' = [outcome EXCEPT ![c] = "no_channel"]
            /\ pc' = [pc EXCEPT ![c] = AfterReturn(who)]
       ELSE /\ log' = [log EXCEPT ![c] = ""]
            /\ outcome' = [outcome EXCEPT ![c] = "running"]
            /\ pc' = [pc EXCEPT ![c] = "acquire"]

\* setup_output(): reads the configuration; int(None) raises when no channel
\* is configured, which ends setup before the paths are set; otherwise the
\* paths and the chip are set and the startup state is applied.
setup_output(c) ==
    /\ pc[c] = "new"
    /\ c \in InstancesOf(scenario)
    /\ \A b \in 1..(c - 1) : pc[b] # "new"
    /\ \E ch \in ChannelsOf(scenario), on \in OnStatesOf(scenario), su \in PoliciesOf(scenario),
          sd \in PoliciesOf(scenario), loc \in LocationsOf(scenario) :
        /\ output_on_state' = [output_on_state EXCEPT ![c] = PyBool(on)]
        /\ state_startup' = [state_startup EXCEPT ![c] = su]
        /\ state_shutdown' = [state_shutdown EXCEPT ![c] = sd]
        /\ channel' = [channel EXCEPT ![c] = ch]
        /\ IF ch = None
           THEN /\ pc' = [pc EXCEPT ![c] = "idle"]
                /\ UNCHANGED <<lock_file, state_file, sensor, output_setup,
                               call, list_states, exc, log, seen, outcome>>
           ELSE /\ lock_file' = [lock_file EXCEPT ![c] = SetupFiles(ch, I2CBus, loc).lock_file]
                /\ state_file' = [state_file EXCEPT ![c] = SetupFiles(ch, I2CBus, loc).state_file]
                /\ sensor' = [sensor EXCEPT ![c] = <<I2CBus, HexToInt(loc)>>]
                /\ output_setup' = [output_setup EXCEPT ![c] = TRUE]
                /\ IF PolicyState(su) # ""
                   THEN MayCall /\ Enter(c, PolicyState(su), "setup", ch, TRUE)
                   ELSE /\ pc' = [pc EXCEPT ![c] = "idle"]
                        /\ UNCHANGED <<call, list_states, exc, log, seen, outcome>>
    /\ UNCHANGED <<scenario, fs, reg, locks, faults, output_state>>

\* The host calls output_switch(s).
output_switch(c) ==
    /\ pc[c] = "idle"
    /\ MayCall
    /\ \E s \in ArgsOf(scenario) : Enter(c, s, "host", channel[c], output_setup[c])
    /\ UNCHANGED <<fs, reg, locks, faults, conf, output_state>>

\* stop_output(): applies the shutdown state, then self.running = False.
stop_output(c) ==
    /\ c \in StoppedOf(scenario)
    /\ pc[c] = "idle"
    /\ IF PolicyState(state_shutdown[c]) # ""
       THEN MayCall /\ Enter(c, PolicyState(state_shutdown[c]), "stop", channel[c],
                              output_setup[c])
       ELSE /\ pc' = [pc EXCEPT ![c] = "stopped"]
            /\ UNCHANGED <<call, list_states, exc, log, seen, outcome>>
    /\ UNCHANGED <<fs, reg, locks, faults, conf, output_state>>

\* ------------------------------------------------------------ the lock
\* lock_acquire(lock_file, timeout=60) returns true once no one else holds
\* the lock file of that name.
lock_acquire(c) ==
    /\ pc[c] = "acquire"
    /\ \A l \in locks : l[1] # lock_file[c]
    /\ locks' = locks \cup {<<lock_file[c], c>>}
    /\ pc' = [pc EXCEPT ![c] = "read"]
    /\ UNCHANGED <<fs, reg, faults, conf, output_state, call, list_states,
                   exc, log, seen, outcome>>

\* lock_acquire returns false: the lock file stayed held by someone else
\* for the whole timeout.  output_switch skips the if-block and returns.
lock_timeout(c) ==
    /\ pc[c] = "acquire"
    /\ \E l \in locks : l[1] = lock_file[c] /\ l[2] # c
    /\ pc' = [pc EXCEPT ![c] = AfterReturn(caller[c])]
    /\ outcome' = [outcome EXCEPT ![c] = "timeout"]
    /\ state' = [state EXCEPT ![c] = ""]
    /\ caller' = [caller EXCEPT ![c] = ""]
    /\ entry_on' = [entry_on EXCEPT ![c] = None]
    /\ UNCHANGED <<fs, reg, locks, faults, conf, output_state, calls,
                   list_states, exc, log, seen>>

\* ------------------------------------------------------------ output_switch
\* Lines 125-142: read the state file into list_states and log it.
read_states(c) ==
    /\ pc[c] = "read"
    /\ list_states' = [list_states EXCEPT ![c] = LoadStates(fs[state_file[c]])]
    /\ read_log' = [read_log EXCEPT ![c] = LoadStates(fs[state_file[c]])]
    /\ file_existed' = [file_existed EXCEPT ![c] = fs[state_file[c]].exists]
    /\ pc' = [pc EXCEPT ![c] = "check"]
    /\ UNCHANGED <<fs, reg, locks, faults, conf, output_state, call, exc, log,
                   outcome>>

\* A mapping that takes every argument as 'on'.
PhysicalStateAlwaysOn(s, on_state) == on_state

\* The physical value for a state argument: on_state for 'on', its negation
\* for 'off'.
PhysicalState(s, on_state) == IF s = "on" THEN on_state ELSE PyBool(~on_state[1])

\* A return that skips the finally clause.
ReturnSkippingFinally(who) == AfterReturn(who)

\* Where a `return` inside the inner try block goes: to its finally clause.
ReturnInsideTry(who) == "finally"

\* Lines 145-160: the length check, the mapping of the argument to
\* self.output_state, and the change of the one entry of the list.
check_states(c) ==
    /\ pc[c] = "check"
    /\ IF Len(list_states[c]) # NumChannels
       THEN /\ log' = [log EXCEPT ![c] = "State list does ot contain 8 elements"]
            /\ outcome' = [outcome EXCEPT ![c] = "bad_length"]
            /\ pc' = [pc EXCEPT ![c] = ReturnInsideTry(caller[c])]
            /\ UNCHANGED <<output_state, list_states>>
       ELSE IF state[c] \notin {"on", "off"}
       THEN /\ log' = [log EXCEPT ![c] = "Unrecognized state"]
            /\ outcome' = [outcome EXCEPT ![c] = "bad_state"]
            /\ pc' = [pc EXCEPT ![c] = ReturnInsideTry(caller[c])]
            /\ UNCHANGED <<output_state, list_states>>
       ELSE /\ output_state' = [output_state EXCEPT ![c] =
                                    PhysicalState(state[c], output_on_state[c])]
            /\ list_states' = [list_states EXCEPT ![c] =
                   [@ EXCEPT ![ListIndex(@, ChannelNumber(channel[c]) - 1)] =
                                    PhysicalState(state[c], output_on_state[c])]]
            /\ pc' = [pc EXCEPT ![c] = "open"]
            /\ UNCHANGED <<log, outcome>>
    /\ UNCHANGED <<fs, reg, locks, faults, conf, call, exc, seen>>

\* How many of the 8 lines may have reached the disk when a write fails.
PartialWrites == {0, NumChannels - 1}

\* Line 163: open(state_file, 'w') creates or empties the file.
open_state_file(c) ==
    /\ pc[c] = "open"
    /\ fs' = [fs EXCEPT ![state_file[c]] = File(<<>>)]
    /\ pc' = [pc EXCEPT ![c] = "write"]
    /\ UNCHANGED <<reg, locks, faults, conf, output_state, call, list_states,
                   exc, log, seen, outcome>>

\* Line 163 raises (the file cannot be opened): nothing is changed on disk.
open_fails(c) ==
    /\ pc[c] = "open"
    /\ faults < MaxFaults
    /\ faults' = faults + 1
    /\ exc' = [exc EXCEPT ![c] = TRUE]
    /\ pc' = [pc EXCEPT ![c] = "finally"]
    /\ UNCHANGED <<fs, reg, locks, conf, output_state, call, list_states, log,
                   seen, outcome>>

\* Lines 164-165 and the close: one line per entry of the list.
write_state_file(c) ==
    /\ pc[c] = "write"
    /\ fs' = [fs EXCEPT ![state_file[c]] = File(FormatStates(list_states[c]))]
    /\ pc' = [pc EXCEPT ![c] = "port"]
    /\ UNCHANGED <<reg, locks, faults, conf, output_state, call, list_states,
                   exc, log, seen, outcome>>

\* A write or the flush raises after k of the lines reached the disk.
write_fails(c) ==
    /\ pc[c] = "write"
    /\ faults < MaxFaults
    /\ faults' = faults + 1
    /\ \E k \in PartialWrites :
          fs' = [fs EXCEPT ![state_file[c]] =
                     File(SubSeq(FormatStates(list_states[c]), 1, k))]
    /\ exc' = [exc EXCEPT ![c] = TRUE]
    /\ pc' = [pc EXCEPT ![c] = "finally"]
    /\ UNCHANGED <<reg, locks, conf, output_state, call, list_states, log,
                   seen, outcome>>

\* Line 168, PCF8574.port setter: assert the list has 8 entries, pack it
\* and write the byte.  The inner try block has then run to its end.
port(c) ==
    /\ pc[c] = "port"
    /\ IF Len(list_states[c]) = NumChannels
       THEN /\ reg' = [reg EXCEPT ![sensor[c]] = PortByte(list_states[c])]
            /\ outcome' = [outcome EXCEPT ![c] = "ok"]
            /\ UNCHANGED exc
       ELSE /\ exc' = [exc EXCEPT ![c] = TRUE]
            /\ UNCHANGED <<reg, outcome>>
    /\ pc' = [pc EXCEPT ![c] = "finally"]
    /\ UNCHANGED <<fs, locks, faults, conf, output_state, call, list_states,
                   log, seen>>

\* bus.write_byte raises: the register keeps its byte.
port_fails(c) ==
    /\ pc[c] = "port"
    /\ faults < MaxFaults
    /\ faults' = faults + 1
    /\ exc' = [exc EXCEPT ![c] = TRUE]
    /\ pc' = [pc EXCEPT ![c] = "finally"]
    /\ UNCHANGED <<fs, reg, locks, conf, output_state, call, list_states, log,
                   seen, outcome>>

\* Lines 169-172: the finally clause releases the lock; a propagating
\* exception is then caught and logged.  output_switch returns None.
lock_release(c) ==
    /\ pc[c] = "finally"
    /\ locks' = locks \ {<<lock_file[c], c>>}
    /\ IF exc[c]
       THEN /\ log' = [log EXCEPT ![c] = "State change error"]
            /\ outcome' = [outcome EXCEPT ![c] = "io_error"]
       ELSE UNCHANGED <<log, outcome>>
    /\ exc' = [exc EXCEPT ![c] = FALSE]
    /\ pc' = [pc EXCEPT ![c] = AfterReturn(caller[c])]
    /\ list_states' = [list_states EXCEPT ![c] = <<>>]
    /\ read_log' = [read_log EXCEPT ![c] = <<>>]
    /\ file_existed' = [file_existed EXCEPT ![c] = FALSE]
    /\ state' = [state EXCEPT ![c] = ""]
    /\ caller' = [caller EXCEPT ![c] = ""]
    /\ entry_on' = [entry_on EXCEPT ![c] = None]
    /\ UNCHANGED <<fs, reg, faults, conf, output_state, calls>>

\* ------------------------------------------------------------ specification
Next ==
    \E c \in Ctrl :
        \/ setup_output(c)
        \/ output_switch(c)
        \/ stop_output(c)
        \/ lock_acquire(c)
        \/ lock_timeout(c)
        \/ read_states(c)
        \/ check_states(c)
        \/ open_state_file(c)
        \/ open_fails(c)
        \/ write_state_file(c)
        \/ write_fails(c)
        \/ port(c)
        \/ port_fails(c)
        \/ lock_release(c)

Spec == Init /\ [][Next]_vars

\* ------------------------------------------------------------ every list
\* The write loop (lines 163-165), the read loop (lines 129-138) and the
\* port setter (lines 237-246) applied to every list of 8 values None / True
\* / False, whatever the register holds: instance 1 is set up on channel 1 of
\* the first chip and stands in output_switch('on') at line 164, the state
\* file opened for writing, with the list about to be written.
Lists == [1..NumChannels -> PyValues]

ListInit ==
    /\ scenario = "solo"
    /\ fs = [p \in StateFiles |->
                IF p = SetupFiles(<<1>>, I2CBus, "0x20").state_file
                THEN File(<<>>) ELSE Absent]
    /\ \E b \in InitBytes : reg = [chip \in Chips |-> b]
    /\ locks = {<<SetupFiles(<<1>>, I2CBus, "0x20").lock_file, 1>>}
    /\ faults = 0
    /\ channel = [c \in Ctrl |-> IF c = 1 THEN <<1>> ELSE None]
    /\ output_on_state = [c \in Ctrl |-> IF c = 1 THEN PyTrue ELSE None]
    /\ state_startup = [c \in Ctrl |-> NoPolicy]
    /\ state_shutdown = [c \in Ctrl |-> NoPolicy]
    /\ lock_file = [c \in Ctrl |->
                       IF c = 1 THEN SetupFiles(<<1>>, I2CBus, "0x20").lock_file ELSE None]
    /\ state_file = [c \in Ctrl |->
                        IF c = 1 THEN SetupFiles(<<1>>, I2CBus, "0x20").state_file ELSE None]
    /\ sensor = [c \in Ctrl |-> IF c = 1 THEN <<I2CBus, HexToInt("0x20")>> ELSE None]
    /\ output_setup = [c \in Ctrl |-> c = 1]
    /\ output_state = [c \in Ctrl |-> IF c = 1 THEN PyTrue ELSE None]
    /\ pc = [c \in Ctrl |-> IF c = 1 THEN "write" ELSE "new"]
    /\ state = [c \in Ctrl |-> IF c = 1 THEN "on" ELSE ""]
    /\ caller = [c \in Ctrl |-> IF c = 1 THEN "host" ELSE ""]
    /\ \E v \in Lists : list_states = [c \in Ctrl |-> IF c = 1 THEN v ELSE <<>>]
    /\ exc = [c \in Ctrl |-> FALSE]
    /\ log = [c \in Ctrl |-> ""]
    /\ read_log = [c \in Ctrl |-> IF c = 1 THEN AllNone ELSE <<>>]
    /\ calls = [c \in Ctrl |-> IF c = 1 THEN 1 ELSE 0]
    /\ outcome = [c \in Ctrl |-> IF c = 1 THEN "running" ELSE "none"]
    /\ entry_on = [c \in Ctrl |-> None]
    /\ file_existed = [c \in Ctrl |-> FALSE]

ListNext ==
    \E c \in Ctrl :
        \/ write_state_file(c)
        \/ port(c)
        \/ lock_release(c)

ListSpec == ListInit /\ [][ListNext]_vars

\* ------------------------------------------------------------ properties
\* The position of an instance's channel in the 8 states: channel option n
\* is the n-th entry (Python index n - 1).
Slot(c) == ChannelNumber(channel[c])

\* The states a load of the instance's record yields now.
Persisted(c) == LoadStates(fs[state_file[c]])

\* The bit of a byte that belongs to the n-th entry: entry 1 is bit 7.
BitOf(byte, n) == Bit(byte, NumChannels - n)

BitValue(v) == IF v = PyTrue THEN 1 ELSE 0

Returned(c) == pc[c] \in {"idle", "stopped"}

\* A record as the program writes it: 8 lines, each a token and a newline.
ValidRecord(file) ==
    file.exists =>
        /\ Len(file.lines) = NumChannels
        /\ \A i \in 1..Len(file.lines) :
              file.lines[i].nl /\ file.lines[i].text \in {"None", "True", "False"}

\* C1: two instances bound to the same bus and chip address use the same
\* lock file, and are never both between acquiring and releasing it: while
\* one reads the record, changes it and writes record and register, no other
\* instance on that address reads or writes them.
C1_MutualExclusion ==
    \A c \in Ctrl, d \in Ctrl :
        (c # d /\ sensor[c] # None /\ sensor[c] = sensor[d]) =>
            /\ lock_file[c] = lock_file[d]
            /\ state_file[c] = state_file[d]
            /\ ~(pc[c] \in InLock /\ pc[d] \in InLock)

\* One instance has emptied the record and not yet rewritten it while
\* another instance of the same chip, on another channel, waits for the lock.
C1_Witness ==
    \E c \in Ctrl, d \in Ctrl :
        /\ c # d /\ sensor[c] = sensor[d] /\ channel[c] # channel[d]
        /\ pc[c] = "write" /\ pc[d] = "acquire"

\* C2: when instances on distinct channels of one chip have each made one
\* call, every call ran under the lock to its end, and all have returned,
\* then for each of them the record and the register hold the value its call
\* wrote for its channel: no update is lost.
C2_NoLostUpdate ==
    \A S \in SUBSET Ctrl :
        ( /\ Cardinality(S) >= 2
          /\ \A c \in S : Returned(c) /\ calls[c] = 1 /\ outcome[c] = "ok"
          /\ \A c \in Ctrl \ S : calls[c] = 0
          /\ \A c \in S, d \in S :
                sensor[c] = sensor[d] /\ (c # d => channel[c] # channel[d]) )
        => \A c \in S :
              /\ Len(Persisted(c)) = NumChannels
              /\ Persisted(c)[Slot(c)] = output_state[c]
              /\ BitOf(reg[sensor[c]], Slot(c)) = BitValue(output_state[c])

\* Two instances of one chip, on the first and the last channel, have both
\* switched on and returned; both bits are set.
C2_Witness ==
    \E c \in Ctrl, d \in Ctrl :
        /\ c # d /\ sensor[c] = sensor[d]
        /\ Returned(c) /\ calls[c] = 1 /\ outcome[c] = "ok"
        /\ Returned(d) /\ calls[d] = 1 /\ outcome[d] = "ok"
        /\ channel[c] = <<1>> /\ channel[d] = <<NumChannels>>
        /\ output_state[c] = PyTrue /\ output_state[d] = PyTrue
        /\ reg[sensor[c]] = 129

C4_FailedCallKeepsIsOn ==
    [][\A c \in Ctrl :
          (pc[c] = "finally" /\ exc[c] /\ pc'[c] # "finally") =>
              /\ log'[c] # ""
              /\ is_on(c)' = entry_on[c]]_vars

\* C5: after a successful call is_on() reports the logical state (True for
\* 'on', False for 'off') whatever the on state, and the record holds the on
\* state for 'on' and its negation for 'off'.
C5_IsOnReportsLogical ==
    \A c \in Ctrl :
        (pc[c] = "finally" /\ outcome[c] = "ok") =>
            /\ is_on(c) = PyBool(state[c] = "on")
            /\ Persisted(c)[Slot(c)] =
                  (IF state[c] = "on" THEN output_on_state[c]
                   ELSE PyBool(~output_on_state[c][1]))

\* C6: a lock file is held only by an instance that is between acquiring
\* and releasing it; an instance whose call has returned, on whichever path,
\* holds no lock, so the lock is free once no call is inside.
C6_LockReleasedOnReturn ==
    \A l \in locks : pc[l[2]] \in InLock /\ l[1] = lock_file[l[2]]

\* One call has ended in an I/O error, the next has found a record of the
\* wrong length; both have returned and no lock is held.
C6_Witness ==
    \E c \in Ctrl, d \in Ctrl :
        /\ c # d /\ Returned(c) /\ Returned(d)
        /\ outcome[c] = "io_error" /\ outcome[d] = "bad_length"
        /\ locks = {}

\* C7: a call whose lock_acquire times out logs an error for its caller and
\* changes neither the record, the register nor self.output_state.
C7_TimeoutReported ==
    [][\A c \in Ctrl :
          (pc[c] = "acquire" /\ pc'[c] \notin {"acquire", "read"}) =>
              /\ log'[c] # ""
              /\ UNCHANGED <<fs, reg, output_state>>]_vars

\* C8: a call gets past the length check only when the record is absent or
\* is 8 lines, each a valid token.
C8_CorruptRecordRejected ==
    \A c \in Ctrl : pc[c] = "open" => ValidRecord(fs[state_file[c]])

\* C9, as the claim states it: without a record, one 'on' with on state
\* True leaves True at the channel's entry and False at every other entry.
C9_FreshOnLeavesFalse ==
    \A c \in Ctrl :
        ( /\ pc[c] = "finally" /\ outcome[c] = "ok"
          /\ ~file_existed[c] /\ state[c] = "on" /\ output_on_state[c] = PyTrue )
        => /\ Persisted(c) =
                 [j \in 1..NumChannels |-> IF j = Slot(c) THEN PyTrue ELSE PyFalse]
           /\ reg[sensor[c]] = Pow2(NumChannels - Slot(c))

\* C9, amended: without a record, one 'on' with on state True writes the
\* token True at the channel's line and None at every other line, and a byte
\* with only the channel's bit set; for index 3 (channel option 4) the byte
\* is 16.
C9_FreshOnLeavesNone ==
    \A c \in Ctrl :
        ( /\ pc[c] = "finally" /\ outcome[c] = "ok"
          /\ ~file_existed[c] /\ state[c] = "on" /\ output_on_state[c] = PyTrue )
        => /\ fs[state_file[c]] =
                 File([j \in 1..NumChannels |->
                          Line(IF j = Slot(c) THEN "True" ELSE "None", TRUE)])
           /\ reg[sensor[c]] = Pow2(NumChannels - Slot(c))
           /\ Slot(c) = 4 => reg[sensor[c]] = 16

\* The first 'on' of channel option 4 on a chip without a record has
\* written the record and the register.
C9_Witness ==
    \E c \in Ctrl :
        /\ pc[c] = "finally" /\ outcome[c] = "ok"
        /\ ~file_existed[c] /\ state[c] = "on" /\ output_on_state[c] = PyTrue
        /\ Slot(c) = 4

\* C10: the byte a call has written has, for each of the 8 entries, a 1 bit
\* if the entry is True and a 0 bit otherwise; an entry of another channel
\* that was read as None is a 0 bit.
C10_UnknownWrittenAsZero ==
    \A c \in Ctrl :
        (pc[c] = "finally" /\ outcome[c] = "ok") =>
            /\ reg[sensor[c]] \in 0..255
            /\ \A j \in 1..NumChannels :
                  /\ BitOf(reg[sensor[c]], j) = BitValue(list_states[c][j])
                  /\ (j # Slot(c) /\ read_log[c][j] = None) =>
                        BitOf(reg[sensor[c]], j) = 0

\* A call has written a byte for a list that holds None and True for
\* channels other than its own.
C10_Witness ==
    \E c \in Ctrl :
        /\ pc[c] = "finally" /\ outcome[c] = "ok"
        /\ \E j \in (1..NumChannels) \ {Slot(c)} : read_log[c][j] = None
        /\ \E j \in (1..NumChannels) \ {Slot(c)} : read_log[c][j] = PyTrue

\* C11: from the moment a call starts to rewrite the record until it has
\* released the lock, a load of the record yields either the 8 states the
\* call read or the 8 states it is writing, also when the write fails.
C11_SaveIsAtomic ==
    \A c \in Ctrl :
        (pc[c] \in {"write", "port", "finally"} /\ Len(read_log[c]) = NumChannels) =>
            Persisted(c) \in {read_log[c], list_states[c]}

\* C12: for every list of 8 values None / True / False, the write loop
\* leaves one token and a newline per entry, in the order of the entries,
\* and the read loop applied to that file yields the list again.
C12_RoundTrip ==
    \A c \in Ctrl :
        pc[c] \in {"port", "finally"} =>
            /\ fs[state_file[c]].exists
            /\ Len(fs[state_file[c]].lines) = NumChannels
            /\ \A i \in 1..NumChannels :
                  fs[state_file[c]].lines[i] = Line(Str(list_states[c][i]), TRUE)
            /\ LoadStates(fs[state_file[c]]) = list_states[c]

\* A list that starts with None and holds True and False has been written.
C12_Witness ==
    \E c \in Ctrl :
        /\ pc[c] = "port"
        /\ list_states[c][1] = None
        /\ \E i \in 1..NumChannels : list_states[c][i] = PyTrue
        /\ \E i \in 1..NumChannels : list_states[c][i] = PyFalse
        /\ fs[state_file[c]].lines # <<>>

\* What output_switch(s) is to leave at the channel of instance c.
Commanded(c, s) ==
    IF s = "on" THEN output_on_state[c] ELSE PyBool(~output_on_state[c][1])

\* The state a successful output_switch(s) of instance c leaves: the record
\* and self.output_state hold the commanded value for the channel, and the
\* register is the byte of the record.
LeftBy(c, s, record, byte, on) ==
    /\ Len(record) = NumChannels
    /\ record[Slot(c)] = Commanded(c, s)
    /\ byte = PortByte(record)
    /\ on = Commanded(c, s)

\* C13: a successful 'on' (or 'off') leaves the record, the register and
\* is_on() in a state that depends on the argument only at the channel's
\* entry, and a further successful call with the same argument, started in
\* the state the first one left, leaves the register byte, the record and
\* is_on() as they were: the second call changes nothing.
C13_Idempotent ==
    [][\A c \in Ctrl :
          (pc[c] = "port" /\ pc'[c] = "finally" /\ outcome'[c] = "ok") =>
              /\ LeftBy(c, state[c], LoadStates(fs'[state_file[c]]), reg'[sensor[c]], is_on(c)')
              /\ LeftBy(c, state[c], read_log[c], reg[sensor[c]], entry_on[c]) =>
                    /\ reg' = reg
                    /\ fs'[state_file[c]] = File(FormatStates(read_log[c]))
                    /\ is_on(c)' = entry_on[c]]_vars

\* The second 'on' of an instance on channel option 3 has written the
\* register: the record it read held the True that only its first 'on' can
\* have left, and the register holds the byte 178 of that record.
C13_Witness ==
    \E c \in Ctrl :
        /\ pc[c] = "finally" /\ outcome[c] = "ok" /\ calls[c] = 2 /\ state[c] = "on"
        /\ Slot(c) = 3 /\ output_on_state[c] = PyTrue
        /\ read_log[c] = <<PyTrue, PyFalse, PyTrue, PyTrue, PyFalse, None, PyTrue, PyFalse>>
        /\ reg[sensor[c]] = 178
        /\ entry_on[c] = PyTrue

\* C14: an output_switch() of an instance without a channel logs an error
\* and returns at once: it takes no lock and changes neither the record nor
\* the register, and an instance without a channel is never at or past
\* lock_acquire.
C14_NoChannelNoIO ==
    [][\A c \in Ctrl :
          /\ (channel'[c] = None /\ calls'[c] # calls[c]) =>
                /\ log'[c] = "Output channel needs to be specified"
                /\ Returned(c)'
                /\ UNCHANGED <<fs, reg, locks, read_log, faults>>
          /\ (channel'[c] = None) => pc'[c] \notin ({"acquire"} \cup InLock)]_vars

\* An instance without a channel has been called and has returned with the
\* error; nothing is locked.
C14_Witness ==
    \E c \in Ctrl :
        /\ channel[c] = None /\ calls[c] = 1 /\ Returned(c)
        /\ outcome[c] = "no_channel"
        /\ log[c] = "Output channel needs to be specified"
        /\ locks = {}

\* What applying a startup or shutdown state `policy` does in one step of
\* instance c: for '1' it starts one output_switch('on') and for '0' one
\* output_switch('off'), called by `who`; for anything else it starts no
\* call, takes no lock and leaves the record, the register and is_on() as
\* they are.
Applies(c, policy, who) ==
    /\ policy = "1" =>
          state'[c] = "on" /\ caller'[c] = who /\ calls'[c] = calls[c] + 1
    /\ policy = "0" =>
          state'[c] = "off" /\ caller'[c] = who /\ calls'[c] = calls[c] + 1
    /\ policy \notin {"1", "0"} =>
          /\ calls'[c] = calls[c] /\ Returned(c)'
          /\ UNCHANGED <<fs, reg, locks>>
          /\ is_on(c)' = is_on(c)

\* C15: setup_output of an instance with a channel applies its startup
\* state and stop_output its shutdown state as Applies says, and no other
\* step starts a call on their behalf.
C15_PoliciesApplied ==
    [][\A c \in Ctrl :
          /\ (pc[c] = "new" /\ pc'[c] # "new" /\ channel'[c] # None) =>
                Applies(c, state_startup'[c], "setup")
          /\ (pc[c] = "idle" /\ (pc'[c] = "stopped" \/ caller'[c] = "stop")) =>
                Applies(c, state_shutdown[c], "stop")
          /\ (caller'[c] = "setup" /\ caller[c] # "setup") => pc[c] = "new"
          /\ (caller'[c] = "stop" /\ caller[c] # "stop") =>
                pc[c] = "idle" /\ state_shutdown[c] \in {"1", "0"}]_vars

\* An instance with startup state '0' and no shutdown state has been set
\* up and stopped: its one call, the 'off' of setup_output, went through.
C15_Witness ==
    \E c \in Ctrl :
        /\ pc[c] = "stopped" /\ calls[c] = 1 /\ outcome[c] = "ok"
        /\ state_startup[c] = "0" /\ state_shutdown[c] = NoPolicy
        /\ output_state[c] = Commanded(c, "off")

\* C16: once a call that read 8 states has gone through or given up its
\* write of the record, the record holds 8 states, and a list handed to the
\* port setter has 8 entries.
C16_AlwaysEightEntries ==
    \A c \in Ctrl :
        /\ (pc[c] \in {"port", "finally"} /\ Len(read_log[c]) = NumChannels) =>
              Len(Persisted(c)) = NumChannels
        /\ pc[c] = "port" => Len(list_states[c]) = NumChannels

BoolLists == [1..NumChannels -> {PyTrue, PyFalse}]

\* C17: the port setter, given a list of 8 booleans, writes the register of
\* its chip once and no other; the byte has bit 7 - i set exactly when entry
\* i (counted from 0) is True, and read back as IOPort.__repr__ reads a
\* byte it is the list again.
C17_PortPacksMsbFirst ==
    [][\A c \in Ctrl :
          (pc[c] = "port" /\ pc'[c] = "finally" /\ list_states[c] \in BoolLists) =>
              /\ outcome'[c] = "ok" /\ ~exc'[c]
              /\ \A chip \in Chips \ {sensor[c]} : reg'[chip] = reg[chip]
              /\ reg'[sensor[c]] \in 0..255
              /\ \A i \in 0..(NumChannels - 1) :
                    (Bit(reg'[sensor[c]], 7 - i) = 1) <=> (list_states[c][i + 1] = PyTrue)
              /\ IOPortRepr(reg'[sensor[c]]) = list_states[c]]_vars

\* The list with only its first entry True has been written over a register
\* of all ones or all zeros: the byte is 128.
C17_Witness ==
    \E c \in Ctrl :
        /\ pc[c] = "finally" /\ outcome[c] = "ok"
        /\ list_states[c] = [i \in 1..NumChannels |-> PyBool(i = 1)]
        /\ reg[sensor[c]] = 128

\* C18: within a call the register is written before the record: when the
\* call stands before its register write, the record still holds the states
\* the call read.
C18_RegisterBeforeRecord ==
    \A c \in Ctrl : pc[c] = "port" => Persisted(c) = read_log[c]

\* C19: when a call that has rewritten the record releases the lock, on
\* whichever path, the register of the chip holds the byte of the record:
\* entry i at bit 7 - i, None as 0.
C19_RegisterMatchesRecord ==
    [][\A c \in Ctrl :
          ( /\ pc[c] = "finally" /\ pc'[c] # "finally"
            /\ Persisted(c) = list_states[c]
            /\ list_states[c] # read_log[c] )
          => /\ \A l \in locks' : l[1] # lock_file[c]
             /\ reg'[sensor[c]] = PortByte(LoadStates(fs'[state_file[c]]))]_vars

\* C20: an entry of the record that held True or False when a call read
\* it still holds True or False when the call has ended, whether the call
\* went through or failed.
C20_KnownStaysKnown ==
    \A c \in Ctrl :
        (pc[c] = "finally" /\ Len(read_log[c]) = NumChannels) =>
            \A j \in 1..NumChannels :
                read_log[c][j] # None =>
                    /\ j <= Len(Persisted(c))
                    /\ Persisted(c)[j] # None

====
